---- MODULE Spec2Model ----
(***************************************************************************)
(* Model of opengm::learning::BundleOptimizer                              *)
(* (include/opengm/learning/bundle-optimizer.hxx).                         *)
(*                                                                         *)
(* Numbers.  Weights, gradients and solution components are integers.     *)
(* Every quantity of ValueType that is an objective value (L_w_tm1, b_t,  *)
(* minValue, minLower, eps_t, min_gap, the epigraph variable xi and the   *)
(* solver's objective value) is kept in HALF units, i.e. the model holds  *)
(* twice the real number.  The factor 0.5 of the regularizer is then      *)
(* exact: 0.5*lambda*d is held as lambda*d.  All gaps of the model are    *)
(* multiples of one half, so min_gap = 1e-5 is held as 0.                 *)
(***************************************************************************)
EXTENDS Integers, Sequences, FiniteSets, TLC

VARIABLES
    parameter,        \* _parameter: [lambda, min_gap, steps]
    bundleCollector,  \* _bundleCollector: the constraints collected so far
    solver,           \* _solver: [created, numVariables, objective, constraints]
    oracle,           \* which oracle the caller passes to optimize
    w,                \* the caller's weight vector (in/out argument of optimize)
    w0,               \* the weights as the caller passed them to the current call
    pc,               \* position inside optimize: "idle", "loop", "solve", "return"
    t,                \* optimize: iteration counter
    minValue,         \* optimize: smallest regularized value seen
    w_tm1,            \* optimize: copy of w taken at the top of the iteration
    L_w_tm1,          \* optimize: value returned by the oracle
    a_t,              \* optimize: gradient returned by the oracle
    b_t,              \* optimize: hyperplane offset
    minLower,         \* optimize: value returned by findMinLowerBound
    eps_t,            \* optimize: gap
    solution,         \* last answer of solver->solve: [x, value, optimal]
    result,           \* value returned by the last finished optimize, or "none"
    trace,            \* collaborator calls made by the current optimize call
    creations,        \* number of QuadraticSolverFactory::Create() calls
    nCalls,           \* number of optimize calls started on this instance
    iterations,       \* loop iterations executed over the instance's lifetime
    allOptimal,       \* every solve so far reported optimal = true
    dotA, dotB, dotResult, dotPc   \* a stand-alone call of dot(a, b)

vars == <<parameter, bundleCollector, solver, oracle, w, w0, pc, t, minValue, w_tm1,
          L_w_tm1, a_t, b_t, minLower, eps_t, solution, result, trace, creations,
          nCalls, iterations, allOptimal, dotA, dotB, dotResult, dotPc>>

optVars == <<parameter, bundleCollector, solver, oracle, w, w0, pc, t, minValue, w_tm1,
             L_w_tm1, a_t, b_t, minLower, eps_t, solution, result, trace, creations,
             nCalls, iterations, allOptimal>>

dotVars == <<dotA, dotB, dotResult, dotPc>>

(***************************************************************************)
(* Bounds                                                                  *)
(***************************************************************************)
\* loop iterations explored over the lifetime of one BundleOptimizer
MaxIter == 2
\* optimize calls explored on one BundleOptimizer
MaxCalls == 2
\* longest vector handed to the stand-alone dot call
MaxLen == 2

\* components of weights and gradients
Grid == -1 .. 1
\* weight vector lengths (numberOfParameters() = numberOfWeights())
Dims == {1, 2}
\* components of the vectors of the stand-alone dot call
DotGrid == -2 .. 2

Vectors(n) == [1 .. n -> Grid]

Twice(v) == 2 * v

Abs(v) == IF v < 0 THEN -v ELSE v

Sign(v) == IF v < 0 THEN -1 ELSE IF v > 0 THEN 1 ELSE 0

RECURSIVE SumTo(_, _)
\* f[1] + ... + f[n]
SumTo(f, n) == IF n = 0 THEN 0 ELSE SumTo(f, n - 1) + f[n]

\* the standard inner product, sum of a[i]*b[i]
InnerProduct(a, b) == SumTo([i \in 1 .. Len(a) |-> a[i] * b[i]], Len(a))

MaxOf(S) == CHOOSE m \in S : \A v \in S : v <= m

MinOf(S) == CHOOSE m \in S : \A v \in S : m <= v

(***************************************************************************)
(* std::numeric_limits<T>::infinity(): larger than every value of the     *)
(* model; it is only ever compared, never used in arithmetic.             *)
(***************************************************************************)
Infinity == 1000000

ReachedMinGap == "ReachedMinGap"
ReachedSteps == "ReachedSteps"
Error == "Error"
OptimizerResult == {ReachedMinGap, ReachedSteps, Error}

(***************************************************************************)
(* BundleOptimizer::dot, as written: d += a[i]+b[i]                        *)
(***************************************************************************)
RECURSIVE dotLoop(_, _, _, _)
dotLoop(a, b, i, d) ==
    IF i > Len(a) THEN d ELSE dotLoop(a, b, i + 1, d + (a[i] + b[i]))

dot(a, b) == dotLoop(a, b, 1, 0)

(***************************************************************************)
(* Collaborators outside this file.                                        *)
(***************************************************************************)
\* solver::BundleCollector::addHyperplane: <w,a> + b <= xi is appended as the
\* linear constraint  <w,a> - xi <= -b
Hyperplane(a, b) ==
    [coefficients |-> Append(a, -1), relation |-> "LessEqual", value |-> -b]

addHyperplane(bc, a, b) == Append(bc, Hyperplane(a, b))

\* solver::BundleCollector::getConstraints
getConstraints(bc) == bc

\* slope and offset of a collected constraint
SlopeOf(c) == SubSeq(c.coefficients, 1, Len(c.coefficients) - 1)
OffsetOf(c) == -c.value

\* the smallest xi (half units) that satisfies every constraint at point wv
XiAt(cons, wv) ==
    MaxOf({Twice(InnerProduct(SlopeOf(cons[i]), wv)) + OffsetOf(cons[i]) :
              i \in 1 .. Len(cons)})

\* value (half units) of the installed objective at x
ObjectiveAt(obj, x) ==
    SumTo([i \in 1 .. Len(x) |-> obj.quadratic[i] * x[i] * x[i] + obj.linear[i] * x[i]],
          Len(x))

\* points of the grid with the tightest feasible xi
FeasiblePoints(s) ==
    {Append(wv, XiAt(s.constraints, wv)) : wv \in Vectors(s.numVariables - 1)}

\* QuadraticSolverBackend::solve: an exact solve returns a minimiser of the
\* installed objective with optimal = true; a solve that could not reach
\* optimality returns some feasible point with optimal = false
SolveAnswers(s) ==
    LET pts == FeasiblePoints(s)
        best == MinOf({ObjectiveAt(s.objective, x) : x \in pts})
    IN  {[x |-> x, value |-> ObjectiveAt(s.objective, x), optimal |-> TRUE] :
            x \in {p \in pts : ObjectiveAt(s.objective, p) = best}}
        \cup
        {[x |-> x, value |-> ObjectiveAt(s.objective, x), optimal |-> FALSE] : x \in pts}

\* the oracles a caller passes: the constant function 5 with gradient 0, the
\* function sum_i |w_i - 3| with its subgradient, and an oracle bound by nothing
Oracles == {"constant", "absolute", "arbitrary"}

ConvexOracles == {"constant", "absolute"}

OracleAnswers(kind, wv) ==
    CASE kind = "constant" ->
            {[value |-> Twice(5), gradient |-> [i \in 1 .. Len(wv) |-> 0]]}
      [] kind = "absolute" ->
            {[value |-> Twice(SumTo([i \in 1 .. Len(wv) |-> Abs(wv[i] - 3)], Len(wv))),
              gradient |-> [i \in 1 .. Len(wv) |-> Sign(wv[i] - 3)]]}
      [] OTHER ->
            {[value |-> v, gradient |-> g] : v \in Grid, g \in Vectors(Len(wv))}

(***************************************************************************)
(* BundleOptimizer                                                         *)
(***************************************************************************)
NoSolver == [created |-> FALSE, numVariables |-> 0,
             objective |-> [quadratic |-> <<>>, linear |-> <<>>, sense |-> "none"],
             constraints |-> <<>>]

NoSolution == [x |-> <<>>, value |-> 0, optimal |-> TRUE]

\* Parameter(): lambda(1.0), min_gap(1e-5), steps(0); the same with a cap of
\* one step; and lambda = 2.0, min_gap = 0.5
Parameters ==
    {[lambda |-> 1, min_gap |-> 0, steps |-> 0],
     [lambda |-> 1, min_gap |-> 0, steps |-> 1],
     [lambda |-> 2, min_gap |-> 1, steps |-> 0]}

\* the objective setupQp builds: 0.5*lambda on each squared weight, 1.0 on xi
QpObjective(n) ==
    [quadratic |-> [i \in 1 .. n + 1 |-> IF i <= n THEN parameter.lambda ELSE 0],
     linear    |-> [i \in 1 .. n + 1 |-> IF i <= n THEN 0 ELSE 1],
     sense     |-> "Minimize"]

\* setupQp with a solver that is created on every call
setupQpRecreate(wv) ==
    [solver |-> [created |-> TRUE, numVariables |-> Len(wv) + 1,
                 objective |-> QpObjective(Len(wv)), constraints |-> <<>>],
     creations |-> creations + 1,
     events |-> <<[op |-> "create"],
                  [op |-> "initialize", numVariables |-> Len(wv) + 1],
                  [op |-> "setObjective", objective |-> QpObjective(Len(wv))]>>]

\* setupQp: the solver after the call, the number of solvers created so far,
\* and the collaborator calls made
setupQp(wv) ==
    [solver |-> [created |-> TRUE, numVariables |-> Len(wv) + 1,
                 objective |-> QpObjective(Len(wv)), constraints |-> <<>>],
     creations |-> IF solver.created THEN creations ELSE creations + 1,
     events |-> (IF solver.created THEN <<>> ELSE <<[op |-> "create"]>>)
                \o <<[op |-> "initialize", numVariables |-> Len(wv) + 1],
                     [op |-> "setObjective", objective |-> QpObjective(Len(wv))]>>]

\* L_w_tm1 + _parameter.lambda*0.5*dot(w_tm1, w_tm1), in half units
RegularizedValue(L, wv) == L + parameter.lambda * dot(wv, wv)

\* minValue = value, without the std::min
OverwriteMinValue(cur, v) == v

\* std::min(minValue, value)
UpdateMinValue(cur, v) == IF v < cur THEN v ELSE cur

\* b_t with the difference the wrong way round
OffsetFlipped(L, wv, a) == Twice(dot(wv, a)) - L

\* b_t = L_w_tm1 - dot(w_tm1, a_t), in half units
Offset(L, wv, a) == L - Twice(dot(wv, a))

\* a collector that is cleared before the hyperplane is added
CollectAfterClear(bc, a, b) == addHyperplane(<<>>, a, b)

\* _bundleCollector.addHyperplane(a_t, b_t)
Collect(bc, a, b) == addHyperplane(bc, a, b)

\* findMinLowerBound that adopts the solution only when it is optimal
findMinLowerBoundStrict(wv, sol) ==
    [w |-> IF sol.optimal THEN [i \in 1 .. Len(wv) |-> sol.x[i]] ELSE wv,
     value |-> sol.value]

\* findMinLowerBound, after solve returned sol: the weights and the value
findMinLowerBound(wv, sol) ==
    [w |-> [i \in 1 .. Len(wv) |-> sol.x[i]], value |-> sol.value]

\* eps_t < min_gap
ConvergedStrict(eps, gap) == eps < gap

\* if (eps_t <= _parameter.min_gap) break;
Converged(eps, gap) == eps <= gap

\* return ReachedMinGap;
ReturnValue == ReachedMinGap

(***************************************************************************)
(* Actions                                                                 *)
(***************************************************************************)
Idle ==
    /\ bundleCollector = <<>>
    /\ solver = NoSolver
    /\ w0 = w
    /\ pc = "idle"
    /\ t = 0
    /\ minValue = Infinity
    /\ w_tm1 = w
    /\ L_w_tm1 = 0
    /\ a_t = [i \in 1 .. Len(w) |-> 0]
    /\ b_t = 0
    /\ minLower = 0
    /\ eps_t = 0
    /\ solution = NoSolution
    /\ result = "none"
    /\ trace = <<>>
    /\ creations = 0
    /\ nCalls = 0
    /\ iterations = 0
    /\ allOptimal = TRUE

DotIdle ==
    /\ dotA = <<>>
    /\ dotB = <<>>
    /\ dotResult = 0
    /\ dotPc = "done"

\* BundleOptimizer(parameter): _parameter(parameter), _solver(0)
Init ==
    /\ parameter \in Parameters
    /\ oracle \in Oracles
    /\ \E n \in Dims :
          /\ oracle \in ConvexOracles \/ n = 1
          /\ w \in Vectors(n)
    /\ Idle
    /\ DotIdle

\* optimize, up to the loop: setupQp(w), minValue = infinity, t = 0
OptimizeBegin ==
    /\ pc = "idle"
    /\ nCalls < MaxCalls
    /\ LET q == setupQp(w)
       IN  /\ solver' = q.solver
           /\ creations' = q.creations
           /\ trace' = q.events
    /\ w0' = w
    /\ minValue' = Infinity
    /\ t' = 0
    /\ result' = "none"
    /\ nCalls' = nCalls + 1
    /\ pc' = "loop"
    /\ UNCHANGED <<parameter, bundleCollector, oracle, w, w_tm1, L_w_tm1, a_t, b_t,
                   minLower, eps_t, solution, iterations, allOptimal>>
    /\ UNCHANGED dotVars

\* the loop body from t++ to _bundleCollector.addHyperplane(a_t, b_t)
Iterate ==
    /\ pc = "loop"
    /\ iterations < MaxIter
    /\ \E ans \in OracleAnswers(oracle, w) :
          /\ t' = t + 1
          /\ w_tm1' = w
          /\ L_w_tm1' = ans.value
          /\ a_t' = ans.gradient
          /\ minValue' = UpdateMinValue(minValue, RegularizedValue(ans.value, w))
          /\ b_t' = Offset(ans.value, w, ans.gradient)
          /\ bundleCollector' =
                 Collect(bundleCollector, ans.gradient, Offset(ans.value, w, ans.gradient))
          /\ trace' = Append(trace, [op |-> "oracle", point |-> w])
    /\ iterations' = iterations + 1
    /\ pc' = "solve"
    /\ UNCHANGED <<parameter, solver, oracle, w, w0, minLower, eps_t, solution, result,
                   creations, nCalls, allOptimal>>
    /\ UNCHANGED dotVars

\* the loop body from findMinLowerBound(w, minLower) to the test of the gap
Resolve ==
    /\ pc = "solve"
    /\ LET s == [solver EXCEPT !.constraints = getConstraints(bundleCollector)]
       IN  \E sol \in SolveAnswers(s) :
              LET r == findMinLowerBound(w, sol)
              IN  /\ solver' = s
                  /\ solution' = sol
                  /\ allOptimal' = (allOptimal /\ sol.optimal)
                  /\ w' = r.w
                  /\ minLower' = r.value
                  /\ eps_t' = minValue - r.value
                  /\ trace' = trace \o
                         <<[op |-> "setConstraints", constraints |-> s.constraints],
                           [op |-> "solve"]>>
                  /\ pc' = IF Converged(minValue - r.value, parameter.min_gap)
                              THEN "return" ELSE "loop"
    /\ UNCHANGED <<parameter, bundleCollector, oracle, w0, t, minValue, w_tm1, L_w_tm1,
                   a_t, b_t, result, creations, nCalls, iterations>>
    /\ UNCHANGED dotVars

\* return ReachedMinGap
Return ==
    /\ pc = "return"
    /\ result' = ReturnValue
    /\ pc' = "idle"
    /\ UNCHANGED <<parameter, bundleCollector, solver, oracle, w, w0, t, minValue,
                   w_tm1, L_w_tm1, a_t, b_t, minLower, eps_t, solution, trace, creations,
                   nCalls, iterations, allOptimal>>
    /\ UNCHANGED dotVars

Next == OptimizeBegin \/ Iterate \/ Resolve \/ Return

Spec == Init /\ [][Next]_vars

(***************************************************************************)
(* A stand-alone call of dot on two vectors of equal length.               *)
(***************************************************************************)
DotInit ==
    /\ parameter \in Parameters
    /\ oracle = "constant"
    /\ w = <<0>>
    /\ Idle
    /\ \E n \in 0 .. MaxLen :
          /\ dotA \in [1 .. n -> DotGrid]
          /\ dotB \in [1 .. n -> DotGrid]
    /\ dotResult = 0
    /\ dotPc = "call"

DotCall ==
    /\ dotPc = "call"
    /\ dotResult' = dot(dotA, dotB)
    /\ dotPc' = "done"
    /\ UNCHANGED <<dotA, dotB>>
    /\ UNCHANGED optVars

DotNext == DotCall

DotSpec == DotInit /\ [][DotNext]_vars

(***************************************************************************)
(* Properties                                                              *)
(***************************************************************************)
\* number of trace entries of the given kind
Count(op) == Cardinality({i \in 1 .. Len(trace) : trace[i].op = op})

C2_StepsCapRespected ==
    parameter.steps > 0 => t <= parameter.steps /\ Count("oracle") <= parameter.steps

\* C3: the hyperplane store is append-only, grows by exactly one per loop
\* iteration, and holds as many hyperplanes as iterations were executed over
\* the lifetime of the instance (it is not reset between optimize calls).
C3_StoreAccumulates ==
    [][ /\ Len(bundleCollector') = iterations'
        /\ Len(bundleCollector') >= Len(bundleCollector)
        /\ SubSeq(bundleCollector', 1, Len(bundleCollector)) = bundleCollector
        /\ t' = t + 1 => Len(bundleCollector') = Len(bundleCollector) + 1
        /\ t' # t + 1 => bundleCollector' = bundleCollector
      ]_vars

\* C3 witness: the second call on the instance has added to the first call's
\* hyperplane
C3_Witness ==
    /\ nCalls = 2
    /\ t = 1
    /\ Len(bundleCollector) = 2

\* C4: within one call minValue starts at +infinity and never increases from
\* one iteration to the next, whatever the oracle and the solver return.
C4_MinValueNonIncreasing ==
    [][ /\ pc = "idle" /\ pc' = "loop" => minValue' = Infinity
        /\ pc # "idle" => minValue' <= minValue
        /\ t' = t + 1 => minValue' <= RegularizedValue(L_w_tm1', w_tm1')
      ]_vars

\* C4 witness: the second iteration saw a larger value than the first
C4_Witness ==
    /\ oracle = "arbitrary"
    /\ t = 2
    /\ minValue < RegularizedValue(L_w_tm1, w_tm1)

\* C5: dot(a, b) is the standard inner product, the sum of a[i]*b[i]
C5_DotIsInnerProduct ==
    dotPc = "done" => dotResult = InnerProduct(dotA, dotB)

\* C6: every appended hyperplane is exact at its generating point:
\* <w, a_t> + b_t = L(w)
C6_HyperplaneExact ==
    t > 0 =>
        /\ bundleCollector[Len(bundleCollector)] = Hyperplane(a_t, b_t)
        /\ Twice(InnerProduct(w_tm1, a_t)) + b_t = L_w_tm1

\* C7: with a convex oracle and an exact solver the gap is never negative
C7_GapNonNegative ==
    oracle \in ConvexOracles /\ allOptimal => eps_t >= 0

\* C8: constant oracle 5 with gradient 0, lambda = 1.0, min_gap = 1e-5, one
\* weight initialised to 0, fresh instance, exact solver: one oracle call, the
\* single hyperplane (0, 5), gap 0, ReachedMinGap after exactly one iteration,
\* final weight 0.
C8_Scenario ==
    /\ oracle = "constant"
    /\ parameter.lambda = 1
    /\ parameter.min_gap = 0
    /\ w0 = <<0>>
    /\ nCalls = 1
    /\ allOptimal

C8_ConstantOracleOneIteration ==
    C8_Scenario =>
        /\ t <= 1
        /\ Count("oracle") = t
        /\ t = 1 => bundleCollector = <<Hyperplane(<<0>>, Twice(5))>>
        /\ t = 1 /\ pc # "solve" =>
              /\ pc \in {"return", "idle"}
              /\ solution.x = <<0, Twice(5)>>
              /\ minLower = Twice(5)
              /\ eps_t = 0
              /\ w = <<0>>
        /\ pc = "idle" => t = 1 /\ result = ReachedMinGap

\* C8 witness: the scenario's call has returned
C8_Witness ==
    /\ C8_Scenario
    /\ pc = "idle"
    /\ result = ReachedMinGap

\* C9: a solve that reports optimal = false is absorbed: the weights are
\* overwritten with the first numberOfParameters() components of the solution
\* (xi is not copied), minLower is the solver's value, the usual gap test is
\* applied, and Error is never returned.
C9_NonOptimalAbsorbed ==
    [][ /\ pc = "solve" /\ ~solution'.optimal =>
              /\ Len(solution'.x) = Len(w) + 1
              /\ w' = SubSeq(solution'.x, 1, Len(w))
              /\ minLower' = solution'.value
              /\ eps_t' = minValue - solution'.value
              /\ (pc' = "return") <=> (eps_t' <= parameter.min_gap)
        /\ result' # Error
      ]_vars

\* C9 witness: a non-optimal solution moved the weights and the call returned
\* ReachedMinGap
C9_Witness ==
    /\ ~solution.optimal
    /\ w # w_tm1
    /\ w = SubSeq(solution.x, 1, Len(w))
    /\ result = ReachedMinGap

\* the trace of one call: initialize and setObjective first (after the
\* creation of the solver, if any), then only oracle, setConstraints and solve,
\* every solve right after a setConstraints
TraceShape ==
    LET k == IF Len(trace) > 0 /\ trace[1].op = "create" THEN 1 ELSE 0
    IN  nCalls > 0 =>
           /\ Len(trace) >= k + 2
           /\ trace[k + 1].op = "initialize"
           /\ trace[k + 2].op = "setObjective"
           /\ \A i \in k + 3 .. Len(trace) :
                 /\ trace[i].op \in {"oracle", "setConstraints", "solve"}
                 /\ trace[i].op = "solve" => trace[i - 1].op = "setConstraints"
                 /\ trace[i].op = "setConstraints" =>
                       i < Len(trace) /\ trace[i + 1].op = "solve"
           /\ Count("initialize") = 1
           /\ Count("setObjective") = 1

\* C10: initialize and setObjective are each called once per optimize call,
\* before the first oracle call; in the loop only setConstraints and solve are
\* called, each solve right after a setConstraints that carries the whole
\* (non-empty) hyperplane store; the installed objective does not change
\* between iterations; and the solver is created at most once per instance,
\* on the first optimize call.
C10_SolverProtocol ==
    [][ /\ TraceShape'
        /\ pc = "solve" =>
              /\ Len(trace') = Len(trace) + 2
              /\ trace'[Len(trace) + 1] =
                     [op |-> "setConstraints", constraints |-> bundleCollector]
              /\ Len(bundleCollector) >= 1
              /\ solver'.constraints = bundleCollector
        /\ pc # "idle" => solver'.objective = solver.objective
        /\ pc = "idle" /\ pc' = "loop" => solver'.objective = QpObjective(Len(w))
        /\ creations' = (IF nCalls' > 0 THEN 1 ELSE 0)
        /\ Count("create")' = (IF nCalls' = 1 THEN 1 ELSE 0)
      ]_vars

\* C10 witness: the second call on the instance has solved its subproblem
C10_Witness ==
    /\ nCalls = 2
    /\ t = 1
    /\ pc = "loop"
    /\ creations = 1
    /\ trace[1].op = "initialize"

====
